---- MODULE Spec2Model ----
(***************************************************************************)
(* State-machine model of repo_insights/hotspots.py (class Hotspots).      *)
(*                                                                         *)
(* Strings are sequences of atoms: an atom is a separator ("/", "\n",      *)
(* "\t", " ") or an indivisible piece of text ("src", "x", ".py", "1").    *)
(* A pathlib.Path is the sequence of its components, each component the    *)
(* sequence of atoms of its name.  The file system has no symbolic links   *)
(* and every path handed to the program is absolute and normalised.        *)
(***************************************************************************)
EXTENDS Integers, Sequences, FiniteSets, TLC

VARIABLES
    fsFiles,          \* file system: the regular files (absolute paths)
    gitDirs,          \* file system: the directories that hold a ".git" entry
    cwd,              \* process-wide current working directory (a string)
    original_cwd,     \* find_repo_path's local original_cwd
    pc,               \* "init" | "locating" | "ready" | "raised"
    analyze_path,     \* self.analyze_path (a string)
    repo_path,        \* self.repo_path (Some(string) once located)
    config,           \* self.config
    depth_level,      \* self.depth_level
    complexity_method,\* self.complexity_method
    changes_method,   \* self.changes_method
    data,             \* self.data, the table
    err,              \* the exception the last call raised, or None
    proc,             \* the external process result that made the last call fail
    gitOut,           \* stdout of the name-only query the last call tallied
    agg,              \* what the depth aggregator read, kept and returned in the last call
    aggregated,       \* whether self.data is a table the aggregator returned
    visited           \* the directories the last os.walk listed

vars == <<fsFiles, gitDirs, cwd, original_cwd, pc, analyze_path, repo_path,
          config, depth_level, complexity_method, changes_method, data, err,
          proc, gitOut, agg, aggregated, visited>>

\* ---------------------------------------------------------------- bounds
MaxFiles == 2
MaxDepthLevel == 2
MaxLogLines == 2

\* ------------------------------------------------------------ primitives
None == <<>>
Some(v) == <<v>>

SEP == "/"
NL == "\n"
TAB == "\t"
SPACE == " "

Min(a, b) == IF a < b THEN a ELSE b

RECURSIVE Flatten(_)
Flatten(ss) == IF ss = <<>> THEN <<>> ELSE Head(ss) \o Flatten(Tail(ss))

RECURSIVE SumSeq(_)
SumSeq(ns) == IF ns = <<>> THEN 0 ELSE Head(ns) + SumSeq(Tail(ns))

\* Collation order of the atoms (stands for the character order of str).
AtomOrder ==
    <<NL, TAB, SPACE, "#", "-", ".", "..", ".git", ".py", ".yaml", SEP,
      "0", "1", "2", "3", "b", "c", "lib", "nm", "r", "src", "w", "x", "y", "z">>

AtomRanks ==
    [a \in { AtomOrder[i] : i \in 1..Len(AtomOrder) } |->
        CHOOSE i \in 1..Len(AtomOrder) : AtomOrder[i] = a]

AtomRank(a) == AtomRanks[a]

\* s < t for strings.
RECURSIVE StrLess(_, _)
StrLess(s, t) ==
    IF t = <<>> THEN FALSE
    ELSE IF s = <<>> THEN TRUE
    ELSE IF Head(s) = Head(t) THEN StrLess(Tail(s), Tail(t))
    ELSE AtomRank(Head(s)) < AtomRank(Head(t))

\* The strings of a finite set, ascending.
RECURSIVE SortStrs(_)
SortStrs(S) ==
    IF S = {} THEN <<>>
    ELSE LET m == CHOOSE x \in S : \A y \in S \ {x} : StrLess(x, y)
         IN <<m>> \o SortStrs(S \ {m})

\* str.split(sep)
RECURSIVE SplitOn(_, _)
SplitOn(s, sep) ==
    IF \A i \in 1..Len(s) : s[i] # sep THEN <<s>>
    ELSE LET i == CHOOSE k \in 1..Len(s) :
                      s[k] = sep /\ \A j \in 1..(k - 1) : s[j] # sep
         IN <<SubSeq(s, 1, i - 1)>> \o SplitOn(SubSeq(s, i + 1, Len(s)), sep)

IsWhite(a) == a \in {NL, TAB, SPACE}

\* str.lstrip() and str.strip()
RECURSIVE LStrip(_)
LStrip(s) == IF s # <<>> /\ IsWhite(Head(s)) THEN LStrip(Tail(s)) ELSE s

RECURSIVE RStrip(_)
RStrip(s) ==
    IF s # <<>> /\ IsWhite(s[Len(s)]) THEN RStrip(SubSeq(s, 1, Len(s) - 1)) ELSE s

Strip(s) == RStrip(LStrip(s))

\* ------------------------------------------------------------- pathlib
\* Path(s).parts without the root: the non-empty pieces between separators.
PathOf(s) == SelectSeq(SplitOn(s, SEP), LAMBDA c : c # <<>>)

\* str(Path): "/" for the root, else "/" before every component.
PathStr(p) ==
    IF p = <<>> THEN <<SEP>>
    ELSE Flatten([i \in 1..Len(p) |-> <<SEP>> \o p[i]])

IsPrefix(p, q) == Len(p) <= Len(q) /\ SubSeq(q, 1, Len(p)) = p

\* Path.relative_to(base), for base an ancestor of p or p itself.
relative_to(p, base) == SubSeq(p, Len(base) + 1, Len(p))

Parent(p) == IF p = <<>> THEN <<>> ELSE SubSeq(p, 1, Len(p) - 1)

\* The number of leading components two paths share.
CommonLen(p, q) ==
    CHOOSE k \in 0..Min(Len(p), Len(q)) :
        /\ SubSeq(p, 1, k) = SubSeq(q, 1, k)
        /\ \A j \in (k + 1)..Min(Len(p), Len(q)) : SubSeq(p, 1, j) # SubSeq(q, 1, j)

\* One ".." for every component of q below the common part, then the rest of p.
RelParts(p, q, common) ==
    [i \in 1..(Len(q) - common) |-> <<"..">>] \o SubSeq(p, common + 1, Len(p))

\* os.sep.join(parts), "." for no part.
RelJoin(parts) ==
    IF parts = <<>> THEN <<".">>
    ELSE Tail(Flatten([i \in 1..Len(parts) |-> <<SEP>> \o parts[i]]))

RelPath(p, q) == RelJoin(RelParts(p, q, CommonLen(p, q)))

\* os.path.relpath(x, start=start) of two absolute paths.
relpath(x, start) == RelPath(PathOf(x), PathOf(start))

\* ---------------------------------------------------------- file system
D(name) == <<name>>
F(stem, ext) == <<stem, ext>>

\* The files a file system of the model may hold.
Candidates ==
    { <<D("r"), D("src"), F("x", ".py")>>,
      <<D("r"), D("src"), F("y", ".py")>>,
      <<D("r"), D("lib"), F("z", ".py")>>,
      <<D("r"), F("b", ".yaml")>>,
      <<D("r"), D("src"), D("nm"), F("w", ".py")>> }

FileSystems == { S \in SUBSET Candidates : Cardinality(S) <= MaxFiles }

\* Every directory: the root and the ancestors of the files.
DirsOf(S) == {<<>>} \cup UNION { { SubSeq(f, 1, k) : k \in 0..(Len(f) - 1) } : f \in S }
Dirs == DirsOf(fsFiles)

GIT == <<".git">>

\* Path.is_dir()
is_dir(p) == p \in Dirs \/ (p # <<>> /\ p[Len(p)] = GIT /\ Parent(p) \in gitDirs)

\* os.listdir(dir): the names of the entries of a directory.
listdir(dir) ==
    { f[Len(dir) + 1] : f \in { g \in fsFiles : Len(g) > Len(dir) /\ IsPrefix(dir, g) } }
    \cup (IF dir \in gitDirs THEN {GIT} ELSE {})

\* The number of lines of each file; line i of a file is indented by i % 3
\* spaces, is a comment when i % 4 = 0 and blank when i % 5 = 0.
FileLen(f) ==
    CASE f[Len(f)] = F("x", ".py") -> 5
      [] f[Len(f)] = F("y", ".py") -> 7
      [] f[Len(f)] = F("z", ".py") -> 4
      [] f[Len(f)] = F("b", ".yaml") -> 3
      [] OTHER -> 2

FileLine(i) ==
    [k \in 1..(i % 3) |-> SPACE]
    \o (IF i % 5 = 0 THEN <<>> ELSE IF i % 4 = 0 THEN <<"#", "c">> ELSE <<"c">>)
    \o <<NL>>

\* The text of a file, as file.readlines() returns it.
readlines(f) == [i \in 1..FileLen(f) |-> FileLine(i)]

\* ------------------------------------------------------ find_repo_path
Modes == {"NUMBER_OF_LINES", "LEFT_WHITE_SPACES"}
ChangeModes == {"NUMBER_OF_COMMITS", "TOTAL_LINES_CHANGED"}
DepthLevels == (-1)..MaxDepthLevel
Configs ==
    { [exclude_dirs |-> {}, exclude_files |-> {}],
      [exclude_dirs |-> {D("nm")}, exclude_files |-> {F("b", ".yaml")}] }

EmptyTable == [cols |-> {}, rows |-> <<>>]

Error(type, msg) == Some([type |-> type, msg |-> msg])

\* Lines 42-43: remember the working directory and enter analyze_path.
FindRepoEnter ==
    /\ pc = "init"
    /\ original_cwd' = cwd
    /\ cwd' = analyze_path
    /\ pc' = "locating"
    /\ UNCHANGED <<fsFiles, gitDirs, analyze_path, repo_path, config, depth_level,
                   complexity_method, changes_method, data, err, proc, gitOut, agg,
                   aggregated, visited>>

\* Faulty variant of FoundPath: the starting directory instead of the
\* directory the marker was found in.
FoundPath_start == analyze_path

\* The directory find_repo_path returns from the state it is in.
FoundPath == cwd

\* Lines 45-48, then the rest of __init__ (lines 33-39).
FindRepoFound ==
    /\ pc = "locating"
    /\ GIT \in listdir(PathOf(cwd))
    /\ repo_path' = Some(FoundPath)
    /\ cwd' = original_cwd
    /\ \E c \in Configs, d \in DepthLevels, cm \in Modes, ch \in ChangeModes :
          /\ config' = c
          /\ depth_level' = d
          /\ complexity_method' = cm
          /\ changes_method' = ch
    /\ data' = EmptyTable
    /\ pc' = "ready"
    /\ UNCHANGED <<fsFiles, gitDirs, original_cwd, analyze_path, err, proc, gitOut, agg,
                   aggregated, visited>>

\* Whether the loop gives up in the directory it is in (line 49).
AtRoot(dir) == dir = <<SEP>>

\* Lines 49-50: the root is reached without a marker.
FindRepoFail ==
    /\ pc = "locating"
    /\ GIT \notin listdir(PathOf(cwd))
    /\ AtRoot(cwd)
    /\ err' = Error("SystemError", <<"not a git repository">>)
    /\ pc' = "raised"
    /\ UNCHANGED <<fsFiles, gitDirs, cwd, original_cwd, analyze_path, repo_path, config,
                   depth_level, complexity_method, changes_method, data, proc, gitOut, agg,
                   aggregated, visited>>

\* Line 51: os.chdir("..")
FindRepoAscend ==
    /\ pc = "locating"
    /\ GIT \notin listdir(PathOf(cwd))
    /\ ~AtRoot(cwd)
    /\ cwd' = PathStr(Parent(PathOf(cwd)))
    /\ UNCHANGED <<fsFiles, gitDirs, original_cwd, pc, analyze_path, repo_path, config,
                   depth_level, complexity_method, changes_method, data, err, proc,
                   gitOut, agg, aggregated, visited>>

\* Before construction: any file system, any existing analysis directory.
LocInit ==
    /\ fsFiles \in FileSystems
    /\ gitDirs \in SUBSET (DirsOf(fsFiles) \cap {<<>>, <<D("r")>>, <<D("r"), D("src")>>})
    /\ cwd \in { PathStr(d) : d \in DirsOf(fsFiles) \cap {<<>>, <<D("r")>>} }
    /\ original_cwd = <<>>
    /\ pc = "init"
    /\ analyze_path \in { PathStr(d) : d \in DirsOf(fsFiles) }
    /\ repo_path = None
    /\ config = None
    /\ depth_level = -1
    /\ complexity_method = "NUMBER_OF_LINES"
    /\ changes_method = "NUMBER_OF_COMMITS"
    /\ data = EmptyTable
    /\ err = None
    /\ proc = None
    /\ gitOut = None
    /\ agg = None
    /\ aggregated = FALSE
    /\ visited = {}

LocNext == FindRepoEnter \/ FindRepoFound \/ FindRepoFail \/ FindRepoAscend

LocSpec == LocInit /\ [][LocNext]_vars

\* The loop of find_repo_path runs to its end: no step of it blocks.
LocFairSpec == LocSpec /\ WF_vars(LocNext)


\* ----------------------------------------------------------- the table
\* A row of self.data; a column the table does not have holds None.
NewRow(path) ==
    [file_path |-> path, changes |-> None, complexity |-> None,
     aggregation_level |-> None, color |-> None, legend |-> None, file |-> None]

\* The outcome of a call: the table it leaves and the exception it raised.
Ok(d) == [ok |-> TRUE, data |-> d, err |-> None, proc |-> None, out |-> None]
Fail(d, e, p) == [ok |-> FALSE, data |-> d, err |-> e, proc |-> p, out |-> None]

KeyError(col) == Error("KeyError", <<col>>)

\* ------------------------------------------------------------ get_files
\* Faulty variant of KeepDirs: the filtered list is bound to a new name
\* (dirs = ... for dirs[:] = ...), so os.walk descends everywhere.
KeepDirs_rebound(dirs, cfg) == dirs

\* Line 63: the directories the walk still descends into.
KeepDirs(dirs, cfg) == { d \in dirs : d \notin cfg.exclude_dirs }

\* Lines 66-67: whether a file is left out.
SkipFile(file, cfg) == file \in cfg.exclude_files

\* os.walk(top), top-down: the files of a directory, then its kept
\* subdirectories; the entries of a directory are listed in ascending order.
RECURSIVE walk(_, _)
walk(dir, cfg) ==
    LET names == listdir(dir)
        files == { n \in names : Append(dir, n) \in fsFiles }
        dirs == SortStrs(KeepDirs(names \ files, cfg))
        here == SelectSeq(SortStrs(files), LAMBDA n : ~SkipFile(n, cfg))
    IN [i \in 1..Len(here) |-> Append(dir, here[i])]
       \o Flatten([i \in 1..Len(dirs) |-> walk(Append(dir, dirs[i]), cfg)])

\* The directories os.walk lists: top and every kept subdirectory below it.
RECURSIVE walked(_, _)
walked(dir, cfg) ==
    LET names == listdir(dir)
        files == { n \in names : Append(dir, n) \in fsFiles }
    IN {dir} \cup UNION { walked(Append(dir, d), cfg) : d \in KeepDirs(names \ files, cfg) }

\* Lines 59-70.  The column holds Path objects; every reader converts them
\* with str(), Path() or os.fspath(), so the row keeps str(Path).
get_files ==
    LET file_paths == walk(PathOf(analyze_path), config)
    IN [cols |-> {"file_path"},
        rows |-> [i \in 1..Len(file_paths) |-> NewRow(PathStr(file_paths[i]))]]

\* ------------------------------------------------------- get_complexity
\* Lines 133-135.
count_file_lines(f) == Len(readlines(f))

CommentMarks == {"#", "//", "/*", "*"}

\* Lines 141-148.
count_file_left_white_spaces(f) ==
    LET lines == readlines(f)
        mass(line) ==
            LET stripped_line == LStrip(line)
            IN IF stripped_line # <<>> /\ Head(stripped_line) \notin CommentMarks
               THEN Len(line) - Len(stripped_line)
               ELSE 0
    IN SumSeq([i \in 1..Len(lines) |-> mass(lines[i])])

\* Lines 111-118 with 129-130 and 137-138; open() of a path that is no
\* regular file raises.
get_complexity(d) ==
    IF "file_path" \notin d.cols THEN Fail(d, KeyError("file_path"), None)
    ELSE IF \E i \in 1..Len(d.rows) : PathOf(d.rows[i].file_path) \notin fsFiles
    THEN Fail(d, Error("IsADirectoryError", <<"open">>), None)
    ELSE LET metric(x) ==
                 IF complexity_method = "NUMBER_OF_LINES"
                 THEN count_file_lines(PathOf(x))
                 ELSE count_file_left_white_spaces(PathOf(x))
         IN Ok([cols |-> d.cols \cup {"complexity"},
                rows |-> [i \in 1..Len(d.rows) |->
                            [d.rows[i] EXCEPT !.complexity = Some(metric(d.rows[i].file_path))]]])

\* ---------------------------------------------------------- get_changes
\* A finished git process.
ProcOk(stdout) == [status |-> "0", stdout |-> stdout, stderr |-> <<>>]
ProcFailed == [status |-> "128", stdout |-> <<>>, stderr |-> <<"fatal: bad revision">>]

\* str(subprocess.CalledProcessError): the command and the exit status.
CalledProcessErrorStr(command, p) ==
    <<"Command ">> \o Flatten(command) \o <<" returned non-zero exit status ", p.status>>

\* Lines 200-204; check_output returns stdout and leaves stderr to the terminal.
run_command(command, p) ==
    IF p.status = "0"
    THEN [ok |-> TRUE, out |-> Strip(p.stdout), err |-> None]
    ELSE [ok |-> FALSE, out |-> <<>>,
          err |-> Error("RuntimeError",
                        <<"Command failed with error: ">> \o CalledProcessErrorStr(command, p))]

\* Lines 160-171 and 184-197, months_back at its default of -1.
get_number_of_commits_command ==
    <<<<"git">>, <<"-C">>, repo_path[1], <<"log">>, <<"--pretty=format:">>,
      <<"--name-only">>, <<"--">>, <<".">>>>

get_lines_changed_command(rel_path) ==
    <<<<"git">>, <<"-C">>, repo_path[1], <<"log">>, <<"--numstat">>,
      <<"--pretty=format:">>, <<"--">>, rel_path>>

\* Faulty variant of TallyKey: the path relative to the analysis root.
TallyKey_analyze(x) == relpath(x, analyze_path)

\* The key the tally is read with (line 158).
TallyKey(x) == relpath(x, repo_path[1])

\* collections.Counter(files) followed by del counts[''], and counts[key].
Counter(files) ==
    [k \in { files[i] : i \in 1..Len(files) } |->
        Cardinality({ i \in 1..Len(files) : files[i] = k })]

DelKey(counts, key) == [k \in DOMAIN counts \ {key} |-> counts[k]]

CounterGet(counts, key) == IF key \in DOMAIN counts THEN counts[key] ELSE 0

\* Lines 150-158.
get_number_of_commits(d, p) ==
    LET r == run_command(get_number_of_commits_command, p)
    IN IF ~r.ok THEN Fail(d, r.err, Some(p))
       ELSE IF "file_path" \notin d.cols THEN Fail(d, KeyError("file_path"), None)
       ELSE LET files == SplitOn(r.out, NL)
                counts == DelKey(Counter(files), <<>>)
            IN [Ok([cols |-> d.cols \cup {"changes"},
                    rows |-> [i \in 1..Len(d.rows) |->
                                [d.rows[i] EXCEPT !.changes =
                                    Some(CounterGet(counts, TallyKey(d.rows[i].file_path)))]]])
                EXCEPT !.out = Some(p.stdout)]

Digits == <<"0", "1", "2", "3", "4", "5", "6", "7", "8", "9">>
IsInt(s) == s # <<>> /\ \A i \in 1..Len(s) : \E k \in 1..10 : Digits[k] = s[i]

\* int(s)
RECURSIVE IntOf(_)
IntOf(s) ==
    IF s = <<>> THEN 0
    ELSE 10 * IntOf(SubSeq(s, 1, Len(s) - 1))
         + ((CHOOSE k \in 1..10 : Digits[k] = s[Len(s)]) - 1)

\* Lines 176-182: Some(total), or None when a line does not parse.
count_file_total_lines_changed(output) ==
    LET lines == SelectSeq(SplitOn(output, NL), LAMBDA line : line # <<>>)
        changes == [i \in 1..Len(lines) |->
                      LET fs == SplitOn(lines[i], TAB)
                      IN SubSeq(fs, 1, Min(2, Len(fs)))]
    IN IF \E i \in 1..Len(changes) :
             Len(changes[i]) # 2 \/ ~IsInt(changes[i][1]) \/ ~IsInt(changes[i][2])
       THEN None
       ELSE Some(SumSeq([i \in 1..Len(changes) |->
                           IntOf(changes[i][1]) + IntOf(changes[i][2])]))

\* The first index the predicate holds at, 0 when there is none.
FirstIdx(n, P(_)) ==
    IF \E i \in 1..n : P(i) THEN CHOOSE i \in 1..n : P(i) /\ \A j \in 1..(i - 1) : ~P(j)
    ELSE 0

\* Lines 173-174: apply() runs the per-file query row after row and the
\* column is assigned only when every row has its value.
\* Line 174, the assignment: bad is the first row whose query or parse
\* raised (0 for none), and nothing is assigned when there is one.
AssignTotals(d, ps, run, total, bad) ==
    IF bad # 0
    THEN IF ~run[bad].ok THEN Fail(d, run[bad].err, Some(ps[bad]))
         ELSE Fail(d, Error("ValueError", <<"int">>), None)
    ELSE Ok([cols |-> d.cols \cup {"changes"},
             rows |-> [i \in 1..Len(d.rows) |->
                         [d.rows[i] EXCEPT !.changes = Some(total[i][1])]]])

\* Lines 176-182 on every query that succeeded.
ParseTotals(d, ps, run, total) ==
    AssignTotals(d, ps, run, total, FirstIdx(Len(total), LAMBDA i : total[i] = None))

ApplyTotals(d, ps, run) ==
    ParseTotals(d, ps, run,
                [i \in 1..Len(run) |->
                    IF run[i].ok THEN count_file_total_lines_changed(run[i].out) ELSE None])

get_total_lines_changed(d, ps) ==
    IF "file_path" \notin d.cols THEN Fail(d, KeyError("file_path"), None)
    ELSE ApplyTotals(d, ps,
             [i \in 1..Len(d.rows) |->
                 run_command(
                     get_lines_changed_command(relpath(d.rows[i].file_path, repo_path[1])),
                     ps[i])])

\* Lines 120-127.
get_changes(d, ext) ==
    IF changes_method = "NUMBER_OF_COMMITS"
    THEN get_number_of_commits(d, ext)
    ELSE get_total_lines_changed(d, ext)


\* What git may answer.  A name-only log is a list of lines, each blank or
\* the repository-relative path of a file; a numstat log of one path lists
\* no commit, one commit or two commits.
Seqs(S, n) == UNION { [1..k -> S] : k \in 0..n }

JoinNL(lines) ==
    IF lines = <<>> THEN <<>>
    ELSE Tail(Flatten([i \in 1..Len(lines) |-> <<NL>> \o lines[i]]))

LogLines == {<<>>} \cup { relpath(PathStr(f), repo_path[1]) : f \in fsFiles }

NameOnlyResults ==
    {ProcFailed} \cup { ProcOk(JoinNL(l)) : l \in Seqs(LogLines, MaxLogLines) }

StatShapes == {"failed", "none", "one", "two"}

StatResult(shape, rel) ==
    CASE shape = "failed" -> ProcFailed
      [] shape = "none" -> ProcOk(<<>>)
      [] shape = "one" -> ProcOk(<<"1", TAB, "0", TAB>> \o rel)
      [] OTHER -> ProcOk(<<"1", TAB, "0", TAB>> \o rel \o <<NL, NL>>
                         \o <<"0", TAB, "1", TAB>> \o rel \o <<NL>>)

\* The answers get_changes may get for table d.
GitAnswers(d) ==
    IF changes_method = "NUMBER_OF_COMMITS" THEN NameOnlyResults
    ELSE { [i \in 1..Len(d.rows) |->
               StatResult(sh[i], relpath(d.rows[i].file_path, repo_path[1]))] :
           sh \in [1..Len(d.rows) -> StatShapes] }

\* ------------------------------------------ wrangle_data_by_depth_level
\* Faulty variants of aggregation_level.
\* A path at exactly the depth level is dropped (>= read as >).
aggregation_level_strict(path, analyze, depth) ==
    LET relative_path == relative_to(PathOf(path), analyze)
    IN IF Len(relative_path) > depth
       THEN Some(PathStr(analyze \o SubSeq(relative_path, 1, depth)) \o <<SEP>>)
       ELSE None

\* A path at exactly the depth level is never marked as a directory.
aggregation_level_unmarked(path, analyze, depth) ==
    LET relative_path == relative_to(PathOf(path), analyze)
    IN IF Len(relative_path) > depth
       THEN Some(PathStr(analyze \o SubSeq(relative_path, 1, depth)) \o <<SEP>>)
       ELSE IF Len(relative_path) = depth THEN Some(PathStr(PathOf(path)))
       ELSE None

\* A path above the depth level is kept as its own node.
aggregation_level_shallow(path, analyze, depth) ==
    LET relative_path == relative_to(PathOf(path), analyze)
    IN IF Len(relative_path) > depth
       THEN Some(PathStr(analyze \o SubSeq(relative_path, 1, depth)) \o <<SEP>>)
       ELSE IF is_dir(PathOf(path)) THEN Some(PathStr(PathOf(path)) \o <<SEP>>)
       ELSE Some(PathStr(PathOf(path)))

\* The truncation keeps one component more than the depth level.
aggregation_level_child(path, analyze, depth) ==
    LET relative_path == relative_to(PathOf(path), analyze)
    IN IF Len(relative_path) > depth + 1
       THEN Some(PathStr(analyze \o SubSeq(relative_path, 1, depth + 1)) \o <<SEP>>)
       ELSE IF Len(relative_path) = depth + 1
       THEN IF is_dir(PathOf(path)) THEN Some(PathStr(PathOf(path)) \o <<SEP>>)
            ELSE Some(PathStr(PathOf(path)))
       ELSE None

\* Lines 80-95.  path is a string of the table, analyze the resolved
\* analysis root; resolve() changes nothing on a normalised absolute path.
aggregation_level(path, analyze, depth) ==
    LET p == PathOf(path)
        relative_path == relative_to(p, analyze)
    IN IF Len(relative_path) > depth
       THEN Some(PathStr(analyze \o SubSeq(relative_path, 1, depth)) \o <<SEP>>)
       ELSE IF Len(relative_path) = depth
       THEN IF is_dir(p) THEN Some(PathStr(p) \o <<SEP>>) ELSE Some(PathStr(p))
       ELSE None

\* Line 104-107: one row per aggregation level, in ascending order, with the
\* sums of changes and complexity.
groupby_sum(rows) ==
    LET keys == SortStrs({ rows[i].aggregation_level[1] : i \in 1..Len(rows) })
        members(k) == SelectSeq(rows, LAMBDA r : r.aggregation_level = Some(k))
        total(k, col) ==
            LET m == members(k) IN SumSeq([i \in 1..Len(m) |-> m[i][col][1]])
    IN [cols |-> {"file_path", "changes", "complexity"},
        rows |-> [i \in 1..Len(keys) |->
                    [NewRow(keys[i]) EXCEPT !.changes = Some(total(keys[i], "changes")),
                                            !.complexity = Some(total(keys[i], "complexity"))]]]

\* Lines 72-109: data is self.data as the call leaves it, ret what it returns.
wrangle_data_by_depth_level(d) ==
    IF depth_level < 0 THEN [ok |-> TRUE, data |-> d, ret |-> d, err |-> None]
    ELSE IF "file_path" \notin d.cols
    THEN [ok |-> FALSE, data |-> d, ret |-> EmptyTable, err |-> KeyError("file_path")]
    ELSE LET analyze == PathOf(analyze_path)
             levelled == [i \in 1..Len(d.rows) |->
                            [d.rows[i] EXCEPT !.aggregation_level =
                                aggregation_level(d.rows[i].file_path, analyze, depth_level)]]
             d2 == [cols |-> d.cols \cup {"aggregation_level"},
                    rows |-> SelectSeq(levelled, LAMBDA r : r.aggregation_level # None)]
         IN IF "changes" \notin d.cols
            THEN [ok |-> FALSE, data |-> d2, ret |-> EmptyTable, err |-> KeyError("changes")]
            ELSE IF "complexity" \notin d.cols
            THEN [ok |-> FALSE, data |-> d2, ret |-> EmptyTable, err |-> KeyError("complexity")]
            ELSE [ok |-> TRUE, data |-> d2, ret |-> groupby_sum(d2.rows), err |-> None]

\* ------------------------------------------------------------ get_color
EndsWith(s, a) == s # <<>> /\ s[Len(s)] = a

\* Lines 207-216.
color_for_file(file_path) ==
    IF EndsWith(file_path, ".yaml") THEN "red"
    ELSE IF EndsWith(file_path, ".py") THEN "blue"
    ELSE IF EndsWith(file_path, SEP) THEN "lime"
    ELSE "grey"

\* Lines 218-227.
legend_label(file_path) ==
    IF EndsWith(file_path, ".yaml") THEN ".yaml"
    ELSE IF EndsWith(file_path, ".py") THEN ".py"
    ELSE IF EndsWith(file_path, SEP) THEN "dir"
    ELSE "other"

\* Lines 206-230.
get_color(d) ==
    [cols |-> d.cols \cup {"color", "legend"},
     rows |-> [i \in 1..Len(d.rows) |->
                 [d.rows[i] EXCEPT !.color = Some(color_for_file(d.rows[i].file_path)),
                                   !.legend = Some(legend_label(d.rows[i].file_path))]]]

\* Line 241, the anchor of Path(s): exactly two leading separators are kept
\* as the root "//", any other absolute path has the root "/".
Anchor(s) ==
    IF Len(s) >= 2 /\ s[1] = SEP /\ s[2] = SEP /\ (Len(s) = 2 \/ s[3] # SEP)
    THEN <<SEP, SEP>>
    ELSE <<SEP>>

\* Line 241: str(Path(x).relative_to(base)), None when relative_to raises.
RelativeToStr(x, base) ==
    IF Anchor(x) # Anchor(base) \/ ~IsPrefix(PathOf(base), PathOf(x)) THEN None
    ELSE Some(RelJoin(relative_to(PathOf(x), PathOf(base))))

\* Line 241: the file column, assigned when every row has its value.
file_column(d) ==
    IF \E i \in 1..Len(d.rows) : RelativeToStr(d.rows[i].file_path, repo_path[1]) = None
    THEN Fail(d, Error("ValueError", <<"relative_to">>), None)
    ELSE Ok([cols |-> d.cols \cup {"file"},
             rows |-> [i \in 1..Len(d.rows) |->
                         [d.rows[i] EXCEPT !.file =
                             RelativeToStr(d.rows[i].file_path, repo_path[1])]]])

\* ------------------------------------------------------------ plot_data
\* Lines 233-234.
EnsureChanges(d, ext) == IF "changes" \notin d.cols THEN get_changes(d, ext) ELSE Ok(d)

\* Faulty variant of EnsureComplexity: the complexity step is left out.
EnsureComplexity_skipped(d) == Ok(d)

\* Lines 235-236.
EnsureComplexity(d) == IF "complexity" \notin d.cols THEN get_complexity(d) ELSE Ok(d)

\* Lines 232-261: the table the call leaves, the exception it raised, and
\* what the aggregator read and returned (None when it was not reached).
\* Lines 240-241: f is the outcome of the file column on the coloured table.
PlotColoured(c, x, w, f) ==
    [ok |-> f.ok, data |-> f.data, err |-> f.err, proc |-> None,
     out |-> IF f.ok THEN c.out ELSE None,
     agg |-> Some([input |-> x.data, kept |-> w.data, output |-> w.ret, ok |-> TRUE])]

\* Lines 238-241: w is what the aggregator did with the table of x.
PlotWrangled(c, x, w) ==
    IF ~w.ok
    THEN [ok |-> FALSE, data |-> w.data, err |-> w.err, proc |-> None, out |-> None,
          agg |-> Some([input |-> x.data, kept |-> w.data, output |-> w.ret,
                        ok |-> FALSE])]
    ELSE PlotColoured(c, x, w, file_column(get_color(w.ret)))

\* Lines 235-238: x is the outcome of the complexity step.
PlotMeasured(c, x) ==
    IF ~x.ok
    THEN [ok |-> FALSE, data |-> x.data, err |-> x.err, proc |-> None, out |-> None,
          agg |-> None]
    ELSE PlotWrangled(c, x, wrangle_data_by_depth_level(x.data))

\* Lines 233-236: c is the outcome of the changes step.
PlotCounted(c) ==
    IF ~c.ok
    THEN [ok |-> FALSE, data |-> c.data, err |-> c.err, proc |-> c.proc, out |-> None,
          agg |-> None]
    ELSE PlotMeasured(c, EnsureComplexity(c.data))

plot_data(d, ext) == PlotCounted(EnsureChanges(d, ext))

\* -------------------------------------------------------------- actions
Static == <<fsFiles, gitDirs, cwd, original_cwd, analyze_path, repo_path,
            config, depth_level, complexity_method, changes_method>>
Env == <<Static, visited>>

\* Nothing catches an exception: the run ends with it.
After(e) == IF e = None THEN "ready" ELSE "raised"

\* hotspots.get_files()
GetFiles ==
    /\ pc = "ready"
    /\ data' = get_files
    /\ visited' = walked(PathOf(analyze_path), config)
    /\ pc' = "ready"
    /\ err' = None
    /\ proc' = None
    /\ gitOut' = None
    /\ agg' = None
    /\ aggregated' = FALSE
    /\ UNCHANGED Static

\* hotspots.get_complexity()
GetComplexity ==
    /\ pc = "ready"
    /\ \E r \in {get_complexity(data)} :
          /\ data' = r.data
          /\ err' = r.err
          /\ pc' = After(r.err)
          /\ proc' = None
    /\ gitOut' = None
    /\ agg' = None
    /\ UNCHANGED aggregated
    /\ UNCHANGED Env

\* hotspots.get_changes()
GetChanges ==
    /\ pc = "ready"
    /\ \E ext \in GitAnswers(data) :
          \E r \in {get_changes(data, ext)} :
             /\ data' = r.data
             /\ err' = r.err
             /\ pc' = After(r.err)
             /\ proc' = r.proc
             /\ gitOut' = r.out
    /\ agg' = None
    /\ UNCHANGED aggregated
    /\ UNCHANGED Env

\* hotspots.plot_data()
PlotData ==
    /\ pc = "ready"
    /\ \E ext \in (IF "changes" \notin data.cols THEN GitAnswers(data) ELSE {None}) :
          \E r \in {plot_data(data, ext)} :
             /\ data' = r.data
             /\ err' = r.err
             /\ pc' = After(r.err)
             /\ proc' = r.proc
             /\ gitOut' = IF r.ok /\ depth_level < 0 THEN r.out ELSE None
             /\ agg' = IF r.agg # None
                       THEN Some([input |-> r.agg[1].input, kept |-> r.agg[1].kept,
                                  output |-> r.agg[1].output, ok |-> r.agg[1].ok,
                                  again |-> aggregated])
                       ELSE None
             /\ aggregated' = (aggregated \/ (r.ok /\ depth_level >= 0))
    /\ UNCHANGED Env

\* After construction: the analysis directory exists, the repository is the
\* top-level directory it lies in (the root for the root), the table is empty.
Constructed(configs, depths, complexities, changes) ==
    /\ fsFiles \in FileSystems
    /\ analyze_path \in { PathStr(d) : d \in DirsOf(fsFiles) }
    /\ LET g == SubSeq(PathOf(analyze_path), 1, Min(1, Len(PathOf(analyze_path))))
       IN /\ gitDirs = {g}
          /\ repo_path = Some(PathStr(g))
    /\ cwd = <<SEP>>
    /\ original_cwd = <<SEP>>
    /\ pc = "ready"
    /\ config \in configs
    /\ depth_level \in depths
    /\ complexity_method \in complexities
    /\ changes_method \in changes
    /\ data = EmptyTable
    /\ err = None
    /\ proc = None
    /\ gitOut = None
    /\ agg = None
    /\ aggregated = FALSE
    /\ visited = {}

\* The pipeline at every depth level, nothing excluded.
Init ==
    Constructed({[exclude_dirs |-> {}, exclude_files |-> {}]}, DepthLevels,
                {"NUMBER_OF_LINES"}, {"TOTAL_LINES_CHANGED"})

\* The pipeline without aggregation (depth_level at its default), under every
\* exclusion configuration and both change strategies.
FlatInit == Constructed(Configs, {-1}, {"LEFT_WHITE_SPACES"}, ChangeModes)

Next == GetFiles \/ GetComplexity \/ GetChanges \/ PlotData

Spec == Init /\ [][Next]_vars

FlatSpec == FlatInit /\ [][Next]_vars

\* ----------------------------------------------------------- properties
\* The components of a table path below the analysis root.
RelOf(fp) == relative_to(PathOf(fp), PathOf(analyze_path))

\* The sum of a numeric column over rows.
ColSum(rows, col) == SumSeq([i \in 1..Len(rows) |-> rows[i][col][1]])

\* The rows whose path has at least depth_level components below the root.
InScope(rows) == SelectSeq(rows, LAMBDA r : Len(RelOf(r.file_path)) >= depth_level)

\* What a row says: its path and its two metrics.
Triples(rows) ==
    [i \in 1..Len(rows) |-> <<rows[i].file_path, rows[i].changes, rows[i].complexity>>]

PathsIn(rows) == { rows[i].file_path : i \in 1..Len(rows) }

\* The last call ran the aggregator to its end at a depth level >= 0.
Aggregated == agg # None /\ agg[1].ok /\ depth_level >= 0

\* The aggregation levels the rows of path fp were given, dropped rows left out.
KeptLevels(fp) ==
    { agg[1].kept.rows[i].aggregation_level :
        i \in { j \in 1..Len(agg[1].kept.rows) : agg[1].kept.rows[j].file_path = fp } }

\* s is str(Path) of its own path, with a trailing separator or without.
Canonical(s) == s \in {PathStr(PathOf(s)), PathStr(PathOf(s)) \o <<SEP>>}

\* C1: for every depth level >= 0, the complexity summed over the aggregate
\* nodes equals the complexity summed over exactly the input rows whose
\* relative path has at least depth_level components, and so does changes.
C1_Conservation ==
    Aggregated =>
        /\ ColSum(agg[1].output.rows, "complexity")
               = ColSum(InScope(agg[1].input.rows), "complexity")
        /\ ColSum(agg[1].output.rows, "changes")
               = ColSum(InScope(agg[1].input.rows), "changes")

\* An aggregation at depth 2 that keeps one of two files and drops the other,
\* the kept one with changes and complexity above 0.
C1_Witness ==
    /\ Aggregated
    /\ depth_level = 2
    /\ Len(agg[1].input.rows) = 2
    /\ Len(InScope(agg[1].input.rows)) = 1
    /\ ColSum(agg[1].output.rows, "changes") > 0
    /\ ColSum(agg[1].output.rows, "complexity") > 0

\* C2: when the table the aggregator reads is one the aggregator returned at
\* the same depth level >= 0, the rows it returns (paths, changes, complexity,
\* in their order) are the rows it read.
C2_Idempotent ==
    (Aggregated /\ agg[1].again) =>
        Triples(agg[1].output.rows) = Triples(agg[1].input.rows)

\* A second pass over a table of two nodes, a directory and a file.
C2_Witness ==
    /\ Aggregated
    /\ agg[1].again
    /\ Len(agg[1].output.rows) = 2
    /\ \E i, j \in 1..2 :
          /\ EndsWith(agg[1].output.rows[i].file_path, SEP)
          /\ ~EndsWith(agg[1].output.rows[j].file_path, SEP)

\* C3: at a depth level >= 0, a path with more relative components than the
\* depth level gets the ancestor directory with exactly depth_level
\* components, ending with a separator; a path with exactly depth_level
\* components gets itself, ending with a separator iff it is a directory; a
\* path with fewer is dropped; the nodes returned are exactly the levels
\* given, one row each.  At a depth level < 0 the table is returned unchanged.
C3_Truncation ==
    /\ (agg # None /\ depth_level < 0) =>
          (agg[1].ok /\ agg[1].output = agg[1].input /\ agg[1].kept = agg[1].input)
    /\ Aggregated =>
          /\ \A fp \in PathsIn(agg[1].input.rows) :
                IF Len(RelOf(fp)) > depth_level
                THEN /\ Cardinality(KeptLevels(fp)) = 1
                     /\ \A l \in KeptLevels(fp) :
                           /\ l # None
                           /\ EndsWith(l[1], SEP)
                           /\ Canonical(l[1])
                           /\ IsPrefix(PathOf(analyze_path), PathOf(l[1]))
                           /\ IsPrefix(PathOf(l[1]), PathOf(fp))
                           /\ Len(RelOf(l[1])) = depth_level
                ELSE IF Len(RelOf(fp)) = depth_level
                THEN /\ Cardinality(KeptLevels(fp)) = 1
                     /\ \A l \in KeptLevels(fp) :
                           /\ l # None
                           /\ Canonical(l[1])
                           /\ PathOf(l[1]) = PathOf(fp)
                           /\ EndsWith(l[1], SEP) <=> is_dir(PathOf(fp))
                ELSE KeptLevels(fp) = {}
          /\ PathsIn(agg[1].kept.rows) \subseteq PathsIn(agg[1].input.rows)
          /\ PathsIn(agg[1].output.rows)
                 = { agg[1].kept.rows[i].aggregation_level[1] :
                       i \in 1..Len(agg[1].kept.rows) }
          /\ Len(agg[1].output.rows) = Cardinality(PathsIn(agg[1].output.rows))

\* An aggregation at depth 2 of one file three components deep and one file
\* one component deep.
C3_Witness ==
    /\ Aggregated
    /\ depth_level = 2
    /\ \E fp \in PathsIn(agg[1].input.rows) : Len(RelOf(fp)) = 3
    /\ \E fp \in PathsIn(agg[1].input.rows) : Len(RelOf(fp)) = 1
    /\ Len(agg[1].output.rows) = 1

\* C4, as the code has it: at depth level 0 every file of a non-empty table
\* is folded into one node, the analysis root itself with a trailing
\* separator, carrying the sums of changes and complexity over all rows;
\* files under different immediate children share that one node.
C4_DepthZeroRoot ==
    (Aggregated /\ depth_level = 0 /\ agg[1].input.rows # <<>>) =>
        Triples(agg[1].output.rows) =
            << <<PathStr(PathOf(analyze_path)) \o <<SEP>>,
                 Some(ColSum(agg[1].input.rows, "changes")),
                 Some(ColSum(agg[1].input.rows, "complexity"))>> >>

\* The scenario: src/x.py (complexity 5, changes 1) and src/y.py (complexity
\* 7, changes 2) under the root /r give the one node "/r/" with 12 and 3.
C4_Witness ==
    /\ Aggregated
    /\ depth_level = 0
    /\ analyze_path = <<SEP, "r">>
    /\ Triples(agg[1].input.rows) =
           << <<<<SEP, "r", SEP, "src", SEP, "x", ".py">>, Some(1), Some(5)>>,
              <<<<SEP, "r", SEP, "src", SEP, "y", ".py">>, Some(2), Some(7)>> >>
    /\ Triples(agg[1].output.rows) = << <<<<SEP, "r", SEP>>, Some(3), Some(12)>> >>

\* C4, as the specification words it: at depth level 0 the nodes are the
\* immediate children of the analysis root that hold a file of the table.
C4_OneNodePerChild ==
    (Aggregated /\ ~agg[1].again /\ depth_level = 0) =>
        { PathOf(fp) : fp \in PathsIn(agg[1].output.rows) }
            = { PathOf(analyze_path) \o <<RelOf(fp)[1]>> :
                  fp \in PathsIn(agg[1].input.rows) }

\* The files of the table when it is a table of get_files.
Enumerated == IF "file_path" \in data.cols THEN { PathOf(fp) : fp \in PathsIn(data.rows) } ELSE {}

\* C5, as the code has it: no enumerated path has a directory name of
\* exclude_dirs among the components strictly between the analysis root and
\* its base name, none has a base name of exclude_files, and the walk lists
\* no directory below the analysis root with an excluded name on the way.
C5_ExclusionBelowRoot ==
    /\ \A f \in Enumerated :
          /\ \A k \in (Len(PathOf(analyze_path)) + 1)..(Len(f) - 1) :
                f[k] \notin config.exclude_dirs
          /\ f[Len(f)] \notin config.exclude_files
    /\ \A v \in visited :
          \A k \in (Len(PathOf(analyze_path)) + 1)..Len(v) : v[k] \notin config.exclude_dirs

\* An enumeration from /r that leaves out the file below the excluded
\* directory nm and lists the other file of the tree.
C5_Witness ==
    /\ config.exclude_dirs = {D("nm")}
    /\ analyze_path = <<SEP, "r">>
    /\ <<D("r"), D("src"), D("nm"), F("w", ".py")>> \in fsFiles
    /\ Enumerated = {<<D("r"), D("src"), F("x", ".py")>>}
    /\ <<D("r"), D("src")>> \in visited
    /\ <<D("r"), D("src"), D("nm")>> \notin visited

\* C5, as the specification words it: no enumerated path has a directory
\* name of exclude_dirs as a component, for any analysis root, and none has
\* a base name of exclude_files.
C5_ExclusionAnywhere ==
    \A f \in Enumerated :
        /\ \A k \in 1..(Len(f) - 1) : f[k] \notin config.exclude_dirs
        /\ f[Len(f)] \notin config.exclude_files

\* The directories from the starting directory up to the root, and those of
\* them that hold the marker.
Chain == { SubSeq(PathOf(analyze_path), 1, k) : k \in 0..Len(PathOf(analyze_path)) }
Marked == Chain \cap gitDirs
Nearest == CHOOSE d \in Marked : \A e \in Marked : Len(e) <= Len(d)

\* C6: find_repo_path ends; when it returns, the result is the absolute path
\* of the nearest directory of the chain that holds the marker; it raises
\* only when no directory of the chain holds it.
C6_Locator ==
    /\ <>(pc \in {"ready", "raised"})
    /\ [](pc = "ready" => (Marked # {} /\ repo_path = Some(PathStr(Nearest))))
    /\ [](pc = "raised" => Marked = {})

\* A search that ascended and stopped at the nearer of two marked directories.
C6_Witness ==
    /\ pc = "ready"
    /\ Cardinality(Marked) = 2
    /\ repo_path # Some(analyze_path)
    /\ repo_path # Some(<<SEP>>)

\* C7: once find_repo_path is over, by return or by exception, the working
\* directory is the one that was current before the call.
C7_CwdRestored == pc \in {"ready", "raised"} => cwd = original_cwd

\* s holds sub as a contiguous piece.
Occurs(sub, s) ==
    \E i \in 1..(Len(s) - Len(sub) + 1) : SubSeq(s, i, i + Len(sub) - 1) = sub

\* C8: when a history query exits non-zero the call raises an error whose
\* message carries what the tool wrote as its diagnostic, and no row of the
\* table holds a changes value.
C8_FatalWithDiagnostic ==
    (pc = "raised" /\ proc # None) =>
        /\ err # None
        /\ err[1].type = "RuntimeError"
        /\ Occurs(proc[1].stderr, err[1].msg)
        /\ \A i \in 1..Len(data.rows) : data.rows[i].changes = None

\* A failed history query leaves the table as it was: the step that raises
\* with a failed process writes no row.
C8_FailureWritesNothing ==
    [][(pc' = "raised" /\ proc' # None) => data' = data]_vars

\* The path of a file below the repository root, relative to that root.
RepoRel(fp) == Tail(PathStr(relative_to(PathOf(fp), PathOf(repo_path[1]))))

\* How many of the lines are the given line.
Occurrences(lines, line) == Cardinality({ i \in 1..Len(lines) : lines[i] = line })

\* C9: in the commit-touch strategy every row's changes is the number of
\* lines of the query's output that are the row's repository-relative path,
\* 0 when there is none, and nothing is raised.
C9_Attribution ==
    gitOut # None =>
        /\ err = None
        /\ "changes" \in data.cols
        /\ \A i \in 1..Len(data.rows) :
              data.rows[i].changes =
                  Some(Occurrences(SplitOn(gitOut[1], NL), RepoRel(data.rows[i].file_path)))

\* A tally of a log that names one file twice and the other never.
C9_Witness ==
    /\ gitOut # None
    /\ Len(data.rows) = 2
    /\ \E i, j \in 1..2 : data.rows[i].changes = Some(2) /\ data.rows[j].changes = Some(0)

\* C10: whenever plot_data reaches the aggregator, the table it reads has
\* the changes and the complexity column and both are set in every row; so
\* has every table the classifier has coloured.
C10_StageOrder ==
    /\ agg # None =>
          /\ {"changes", "complexity"} \subseteq agg[1].input.cols
          /\ \A i \in 1..Len(agg[1].input.rows) :
                /\ agg[1].input.rows[i].changes # None
                /\ agg[1].input.rows[i].complexity # None
    /\ "color" \in data.cols =>
          \A i \in 1..Len(data.rows) :
              data.rows[i].changes # None /\ data.rows[i].complexity # None

\* A plot_data call whose aggregator read two measured files.
C10_Witness ==
    /\ agg # None
    /\ ~agg[1].again
    /\ Len(agg[1].input.rows) = 2
    /\ \A i \in 1..2 :
          /\ agg[1].input.rows[i].changes # None
          /\ agg[1].input.rows[i].changes[1] > 0
          /\ agg[1].input.rows[i].complexity # None
          /\ agg[1].input.rows[i].complexity[1] > 0

====
